---- MODULE Spec2Model ----
(***************************************************************************)
(* Model of src/final.py, the Streamlit voice-cloning page.                *)
(*                                                                         *)
(* The script is re-executed top to bottom for every UI event of a         *)
(* session.  Each session's script run is a thread of its own, so the      *)
(* external calls of two sessions interleave; inside one session the       *)
(* events are handled one at a time (a new event is taken only when the    *)
(* previous script run has ended).                                         *)
(*                                                                         *)
(* Every external call (tempfile creation, file write, librosa decode,     *)
(* soundfile encode, shutil copy, engine construction, engine synthesis,   *)
(* reopening the output) either completes or raises; which of the two is   *)
(* chosen by the environment.                                              *)
(***************************************************************************)
EXTENDS Integers, Sequences, FiniteSets, TLC

\* ------------------------------------------------------------------ bounds

\* Total number of generate actions, over all sessions, that get past
\* validation (clicks that end in a warning or at st.stop() are not limited).
MaxGenerate == 2

\* Browser sessions connected to the one running application.
Sessions == {"s1", "s2"}

\* ---------------------------------------------------------------- constants

None == 0

\* librosa.load(..., sr=22050)
sr == 22050

\* preprocess_audio(..., max_duration=15) at the call site
CallCap == 15

\* def preprocess_audio(..., max_duration=10)
DefaultCap == 10

\* st.selectbox options, index=0
LANGUAGES == <<"en", "hi", "kn", "ta", "te", "fr", "de", "es", "zh", "ar">>

\* Languages the model's user picks among (a subset of LANGUAGES).
LanguageChoices == {LANGUAGES[1], LANGUAGES[6]}

Whitespace == {" ", "\t", "\n"}

\* Contents of the text area: empty, whitespace only, padded non-blank.
Texts == {<<>>, <<" ", "\n">>, <<" ", "h", "i", " ">>}

\* Uploaded byte strings.  `ok` says whether librosa can decode them and
\* `len` is the number of samples the decoder yields at 22050 Hz.
Bytes(id, ok, n) == [fmt |-> "raw", id |-> id, ok |-> ok, len |-> n]

\* What the user uploads: a 20 s clip.  (Whether it can be decoded is also
\* up to the environment of librosa.load, see preprocess_audio.)
Uploads == {Bytes(1, TRUE, 20 * sr)}

\* Texts of the exceptions the engine raises (str(e) may be empty).
EngineErrors == {<<>>, <<"CUDA out of memory">>}

VARIABLES
    cache,            \* st.cache_resource entry of load_xtts_model: <<>> or <<value>>
    nCtor,            \* number of TTS(...) constructor invocations, process wide
    ctorBy,           \* per session: constructor invocations made by its script runs
    session_state,    \* per session: <<>> (no "model" key) or <<model>>
    text,             \* per session: st.text_area value
    reference_audio,  \* per session: st.file_uploader value (None or bytes)
    language,         \* per session: st.selectbox value
    pc,               \* per session: position of the running script
    ref_path,         \* per session: handler local
    short_ref_path,   \* per session: handler local
    files,            \* the temp directory: path -> file
    act,              \* per session: what the current/last generate action did
    pre,              \* per session: the last preprocess_audio call
    nValid            \* per session: generate actions that passed validation

vars == <<cache, nCtor, ctorBy, session_state, text, reference_audio, language,
          pc, ref_path, short_ref_path, files, act, pre, nValid>>

model_vars == <<cache, nCtor, ctorBy, session_state>>
widget_vars == <<text, reference_audio, language>>
local_vars == <<ref_path, short_ref_path>>

\* ----------------------------------------------------------------- helpers

Min(a, b) == IF a <= b THEN a ELSE b

Max(a, b) == IF a >= b THEN a ELSE b

\* str.strip(): drop leading and trailing whitespace.
RECURSIVE lstrip(_)
lstrip(t) == IF t # <<>> /\ Head(t) \in Whitespace THEN lstrip(Tail(t)) ELSE t

RECURSIVE rstrip(_)
rstrip(t) ==
    IF t # <<>> /\ t[Len(t)] \in Whitespace
    THEN rstrip(SubSeq(t, 1, Len(t) - 1))
    ELSE t

strip(t) == rstrip(lstrip(t))

\* Python slice audio[:k] on an array of n samples: its length.
SliceLen(n, k) == IF k >= 0 THEN Min(n, k) ELSE Max(n + k, 0)

EmptyData == [fmt |-> "empty", id |-> 0, ok |-> FALSE, len |-> 0]

PartialData == [fmt |-> "partial", id |-> 0, ok |-> FALSE, len |-> 0]

\* A WAV file holding the first n samples of the decoding of upload `id`.
WavData(id, n) == [fmt |-> "wav", id |-> id, ok |-> TRUE, len |-> n]

\* Content of a file no running script holds a path to any more.  Such a
\* file stays on disk but is never read again, so its content is not tracked.
Untracked == [fmt |-> "untracked", id |-> 0, ok |-> FALSE, len |-> 0]

SynthData == [fmt |-> "synth", id |-> 0, ok |-> TRUE, len |-> 0]

\* A path variable that holds no path (Python None).
NoPath == <<>>

NoAct ==
    [started |-> FALSE, blocked |-> FALSE, warned |-> FALSE, trace |-> <<>>,
     created |-> 0, msg |-> <<>>, out |-> NoPath, exposed |-> NoPath,
     unhandled |-> FALSE, call |-> <<>>]

NoPre ==
    [ret |-> "none", audio_path |-> NoPath, output_path |-> NoPath,
     max_duration |-> 0, src |-> EmptyData]

\* ------------------------------------------------------------ temp files

\* The fresh name tempfile draws: no two files ever share one.  A name is
\* identified by the session, the ordinal of its generate action and the
\* file's role in the handler.
TempName(s, kind) == <<s, nValid[s], kind>>

\* tempfile.NamedTemporaryFile(delete=False, suffix=".wav"): a new, empty,
\* existing file at path p.
NamedTemporaryFile(fs, p) == (p :> [exists |-> TRUE, data |-> EmptyData]) @@ fs

\* Variant: delete=True (tempfile's default), the file goes when it is closed.
CloseTemp_delete(fs, p) == [fs EXCEPT ![p].exists = FALSE]

\* Leaving the `with` block closes the handle; with delete=False the file stays.
CloseTemp(fs, p) == fs

Write(fs, p, d) == [fs EXCEPT ![p].data = d]

\* ------------------------------------------------------------ model cache

\* Variant: load_xtts_model without @st.cache_resource, every call constructs.
load_xtts_model_uncached(c, n, ok) ==
    LET v == IF ok THEN n + 1 ELSE None
    IN  [cache |-> <<v>>, value |-> v, built |-> 1]

\* @st.cache_resource around load_xtts_model: one entry for the whole
\* process, filled under the cache's compute lock by the first caller; the
\* value returned by the body (the engine or None) is what is cached.
\* c is the cache entry, n the number of constructor calls so far, ok whether
\* TTS(...) completes.  A new engine's handle is the ordinal of its construction.
load_xtts_model(c, n, ok) ==
    IF c # <<>>
    THEN [cache |-> c, value |-> c[1], built |-> 0]
    ELSE LET v == IF ok THEN n + 1 ELSE None
         IN  [cache |-> <<v>>, value |-> v, built |-> 1]

\* Variant: st.session_state.model = TTS(...) at the top of every run.
InitModel_everyRun(s, ok) ==
    LET r == load_xtts_model_uncached(cache, nCtor, ok)
    IN  /\ session_state' = [session_state EXCEPT ![s] = <<r.value>>]
        /\ cache' = r.cache
        /\ nCtor' = nCtor + r.built
        /\ ctorBy' = [ctorBy EXCEPT ![s] = @ + r.built]

\* if "model" not in st.session_state: st.session_state.model = load_xtts_model()
InitModel(s, ok) ==
    IF session_state[s] = <<>>
    THEN LET r == load_xtts_model(cache, nCtor, ok)
         IN  /\ session_state' = [session_state EXCEPT ![s] = <<r.value>>]
             /\ cache' = r.cache
             /\ nCtor' = nCtor + r.built
             /\ ctorBy' = [ctorBy EXCEPT ![s] = @ + r.built]
    ELSE UNCHANGED model_vars

\* Variant: the st.stop() guard is missing.
Stopped_never(ss, s) == FALSE

\* if st.session_state.model is None: st.stop()
Stopped(ss, s) == ss[s][1] = None

\* The widgets below st.stop() exist only after a run that got past it.
Rendered(s) == session_state[s] # <<>> /\ ~Stopped(session_state, s)

\* ------------------------------------------------------- preprocess_audio

\* Variant: the whole decoded audio is written, the cap is not applied.
preprocess_audio_nocap(fs, audio_path, output_path, max_duration, decode_ok, write_ok, copy_ok) ==
    LET there == fs[audio_path].exists
        src == fs[audio_path].data
        decoded == there /\ src.ok /\ decode_ok
    IN  IF decoded /\ write_ok
        THEN [fs |-> Write(fs, output_path, WavData(src.id, src.len)),
              ret |-> "True"]
        ELSE IF there /\ copy_ok
        THEN [fs |-> Write(fs, output_path, src), ret |-> "False"]
        ELSE [fs |-> IF decoded THEN Write(fs, output_path, PartialData) ELSE fs,
              ret |-> "raised"]

\* librosa.load / soundfile.write / shutil.copy2 on the temp directory fs.
\* librosa.load completes if the bytes are decodable and the environment
\* lets it (decode_ok: the imports succeed, a codec for the format is there);
\* write_ok and copy_ok: whether sf.write and shutil.copy2 complete.
\* ret is "True", "False", or "raised" when the except block itself raises.
preprocess_audio(fs, audio_path, output_path, max_duration, decode_ok, write_ok, copy_ok) ==
    LET there == fs[audio_path].exists
        src == fs[audio_path].data
        decoded == there /\ src.ok /\ decode_ok
        max_samples == Min(src.len, max_duration * sr)
    IN  IF decoded /\ write_ok
        THEN [fs |-> Write(fs, output_path,
                           WavData(src.id, SliceLen(src.len, max_samples))),
              ret |-> "True"]
        ELSE IF there /\ copy_ok
        THEN [fs |-> Write(fs, output_path, src), ret |-> "False"]
        ELSE [fs |-> IF decoded THEN Write(fs, output_path, PartialData) ELSE fs,
              ret |-> "raised"]

\* ------------------------------------------------------------ script runs

\* An exception nobody catches ends the script run; the action has failed
\* without the page having reported anything itself.
Abort(s) ==
    /\ pc' = [pc EXCEPT ![s] = "failed"]
    /\ act' = [act EXCEPT ![s].unhandled = TRUE]

\* Every script run redraws the page from scratch: what the previous run
\* displayed (messages, players, the record of its calls) is gone.
Redraw(s) ==
    /\ act' = [act EXCEPT ![s] = NoAct]
    /\ pre' = [pre EXCEPT ![s] = NoPre]

Forget(fs, s) ==
    [p \in DOMAIN fs |->
        IF p[1] = s THEN [fs[p] EXCEPT !.data = Untracked] ELSE fs[p]]

\* The handler's locals die with the script run, and with them the only
\* references to the temp files it created.
EndRun(s) ==
    /\ pc' = [pc EXCEPT ![s] = "idle"]
    /\ files' = Forget(files, s)
    /\ ref_path' = [ref_path EXCEPT ![s] = NoPath]
    /\ short_ref_path' = [short_ref_path EXCEPT ![s] = NoPath]

\* First page load or a plain rerun: the script runs with the button false.
Rerun(s) ==
    /\ pc[s] = "idle"
    /\ \E ok \in BOOLEAN : InitModel(s, ok)
    /\ Redraw(s)
    /\ UNCHANGED <<widget_vars, local_vars, pc, files, nValid>>

\* st.file_uploader: a new upload replaces the previous one.
Upload(s, a) ==
    /\ pc[s] = "idle"
    /\ Rendered(s)
    /\ InitModel(s, TRUE)
    /\ reference_audio' = [reference_audio EXCEPT ![s] = <<a>>]
    /\ Redraw(s)
    /\ UNCHANGED <<text, language, local_vars, pc, files, nValid>>

\* st.text_area
TextChange(s, t) ==
    /\ pc[s] = "idle"
    /\ Rendered(s)
    /\ InitModel(s, TRUE)
    /\ text' = [text EXCEPT ![s] = t]
    /\ Redraw(s)
    /\ UNCHANGED <<reference_audio, language, local_vars, pc, files, nValid>>

\* st.selectbox
LanguageChange(s, l) ==
    /\ pc[s] = "idle"
    /\ Rendered(s)
    /\ InitModel(s, TRUE)
    /\ language' = [language EXCEPT ![s] = l]
    /\ Redraw(s)
    /\ UNCHANGED <<text, reference_audio, local_vars, pc, files, nValid>>

RECURSIVE Sum(_, _)
Sum(f, S) == IF S = {} THEN 0 ELSE LET x == CHOOSE y \in S : TRUE
                                   IN  f[x] + Sum(f, S \ {x})

\* Room for one more generate action within MaxGenerate.
Budget ==
    Sum(nValid, Sessions) + Cardinality({t \in Sessions : pc[t] = "validating"})
        < MaxGenerate

\* A generate action arrives: the script runs from the top with the button
\* true.  In a session whose model is None the run ends at st.stop().
GenerateClick(s) ==
    /\ pc[s] = "idle"
    /\ session_state[s] # <<>>
    /\ Budget
    /\ InitModel(s, TRUE)
    /\ IF Stopped(session_state', s)
       THEN /\ act' = [act EXCEPT ![s] = [NoAct EXCEPT !.started = TRUE,
                                                       !.blocked = TRUE]]
            /\ UNCHANGED pc
       ELSE /\ act' = [act EXCEPT ![s] = [NoAct EXCEPT !.started = TRUE]]
            /\ pc' = [pc EXCEPT ![s] = "validating"]
    /\ pre' = [pre EXCEPT ![s] = NoPre]
    /\ UNCHANGED <<widget_vars, local_vars, files, nValid>>

\* Variant: `if not text:`, the strip() is missing.
Invalid_nostrip(t, r) == t = <<>> \/ r = <<>>

\* if not text.strip(): ... elif not reference_audio: ...
Invalid(t, r) == strip(t) = <<>> \/ r = <<>>

\* The validation at the head of the button handler.
Validate(s) ==
    /\ pc[s] = "validating"
    /\ IF Invalid(text[s], reference_audio[s])
       THEN /\ act' = [act EXCEPT ![s].warned = TRUE]
            /\ pc' = [pc EXCEPT ![s] = "idle"]
            /\ UNCHANGED nValid
       ELSE /\ pc' = [pc EXCEPT ![s] = "persist"]
            /\ nValid' = [nValid EXCEPT ![s] = @ + 1]
            /\ UNCHANGED act
    /\ UNCHANGED <<model_vars, widget_vars, local_vars, files, pre>>

\* with NamedTemporaryFile(...) as ref_file: ref_file.write(...); ref_path = ...
PersistUpload(s) ==
    /\ pc[s] = "persist"
    /\ LET p == TempName(s, "ref")
           fs == NamedTemporaryFile(files, p)
       IN  \/ \* creating the file raises
              /\ Abort(s)
              /\ UNCHANGED <<files, ref_path>>
           \/ \* the write raises
              /\ files' = CloseTemp(Write(fs, p, PartialData), p)
              /\ pc' = [pc EXCEPT ![s] = "failed"]
              /\ act' = [act EXCEPT ![s].unhandled = TRUE, ![s].created = @ + 1]
              /\ UNCHANGED ref_path
           \/ /\ files' = CloseTemp(Write(fs, p, reference_audio[s][1]), p)
              /\ ref_path' = [ref_path EXCEPT ![s] = p]
              /\ pc' = [pc EXCEPT ![s] = "preprocess"]
              /\ act' = [act EXCEPT ![s].created = @ + 1,
                                    ![s].trace = Append(@, "persist")]
    /\ UNCHANGED <<model_vars, widget_vars, short_ref_path, pre, nValid>>

\* with NamedTemporaryFile(...) as short_ref:
\*     preprocess_audio(ref_path, short_ref.name, max_duration=15)
Preprocess(s) ==
    /\ pc[s] = "preprocess"
    /\ \/ \* creating the file raises
          /\ Abort(s)
          /\ UNCHANGED <<files, short_ref_path, pre>>
       \/ \E decode_ok, write_ok, copy_ok \in BOOLEAN :
            LET p == TempName(s, "clip")
                fs == NamedTemporaryFile(files, p)
                r == preprocess_audio(fs, ref_path[s], p, CallCap,
                                      decode_ok, write_ok, copy_ok)
            IN  /\ files' = CloseTemp(r.fs, p)
                /\ pre' = [pre EXCEPT ![s] =
                             [ret |-> r.ret, audio_path |-> ref_path[s],
                              output_path |-> p, max_duration |-> CallCap,
                              src |-> files[ref_path[s]].data]]
                /\ IF r.ret = "raised"
                   THEN /\ pc' = [pc EXCEPT ![s] = "failed"]
                        /\ act' = [act EXCEPT ![s].unhandled = TRUE,
                                              ![s].created = @ + 1,
                                              ![s].trace = Append(@, "preprocess")]
                        /\ UNCHANGED short_ref_path
                   ELSE /\ pc' = [pc EXCEPT ![s] = "synth"]
                        /\ act' = [act EXCEPT ![s].created = @ + 1,
                                              ![s].trace = Append(@, "preprocess")]
                        /\ short_ref_path' = [short_ref_path EXCEPT ![s] = p]
    /\ UNCHANGED <<model_vars, widget_vars, ref_path, nValid>>

\* Variant: the raw upload is handed to the engine.
SpeakerWav_raw(s) == ref_path[s]

\* generate_voice_clone(text, short_ref_path, language): the reference handed
\* to the engine is the preprocessed clip.
SpeakerWav(s) == short_ref_path[s]

\* st.error(f"... Voice cloning failed: {str(e)}")
ErrorText(e) == <<"Voice cloning failed: ">> \o e

\* generate_voice_clone up to the engine call: the availability check and
\* the creation of the output file.
SynthBegin(s) ==
    /\ pc[s] = "synth"
    /\ LET tts == session_state[s][1]
           p == TempName(s, "out")
       IN  IF tts = None
           THEN \* if not tts: return None
                /\ pc' = [pc EXCEPT ![s] = "failed"]
                /\ UNCHANGED <<files, act>>
           ELSE \/ \* creating the output file raises: caught, reported
                   \E e \in EngineErrors :
                      /\ pc' = [pc EXCEPT ![s] = "failed"]
                      /\ act' = [act EXCEPT ![s].msg = ErrorText(e)]
                      /\ UNCHANGED files
                \/ /\ files' = NamedTemporaryFile(files, p)
                   /\ pc' = [pc EXCEPT ![s] = "engine"]
                   /\ act' = [act EXCEPT
                                ![s].created = @ + 1,
                                ![s].trace = Append(@, "engine"),
                                ![s].call = <<[text |-> text[s],
                                               speaker_wav |-> SpeakerWav(s),
                                               language |-> language[s],
                                               file_path |-> p,
                                               tts |-> tts]>>]
    /\ UNCHANGED <<model_vars, widget_vars, local_vars, pre, nValid>>

\* tts.tts_to_file(...) returns or raises; then `if output_file:`.
EngineReturn(s) ==
    /\ pc[s] = "engine"
    /\ LET p == act[s].call[1].file_path
       IN  \/ /\ files' = CloseTemp(Write(files, p, SynthData), p)
              /\ act' = [act EXCEPT ![s].out = p]
              /\ pc' = [pc EXCEPT ![s] = IF p # NoPath THEN "succeeded" ELSE "failed"]
           \/ \E e \in EngineErrors, d \in {EmptyData, PartialData} :
                 /\ files' = CloseTemp(Write(files, p, d), p)
                 /\ act' = [act EXCEPT ![s].msg = ErrorText(e)]
                 /\ pc' = [pc EXCEPT ![s] = "failed"]
    /\ UNCHANGED <<model_vars, widget_vars, local_vars, pre, nValid>>

\* st.success, st.audio twice, open(output_file) for the download button.
ShowResult(s) ==
    /\ pc[s] = "succeeded"
    /\ EndRun(s)
    /\ \/ /\ files[act[s].out].exists
          /\ act' = [act EXCEPT ![s].exposed = act[s].out]
       \/ \* reopening the output raises after it was handed to st.audio
          act' = [act EXCEPT ![s].exposed = act[s].out, ![s].unhandled = TRUE]
    /\ UNCHANGED <<model_vars, widget_vars, pre, nValid>>

\* Variant: the handle is dropped after a failure.
EndFailed_dropsModel(s) ==
    /\ pc[s] = "failed"
    /\ EndRun(s)
    /\ session_state' = [session_state EXCEPT ![s] = <<None>>]
    /\ UNCHANGED <<cache, nCtor, ctorBy, widget_vars, act, pre, nValid>>

\* Nothing follows a failed synthesis: the run falls through to the footer.
EndFailed(s) ==
    /\ pc[s] = "failed"
    /\ EndRun(s)
    /\ UNCHANGED <<model_vars, widget_vars, act, pre, nValid>>

\* ---------------------------------------------------------- specification

Init ==
    /\ cache = <<>>
    /\ nCtor = 0
    /\ ctorBy = [s \in Sessions |-> 0]
    /\ session_state = [s \in Sessions |-> <<>>]
    /\ text = [s \in Sessions |-> <<>>]
    /\ reference_audio = [s \in Sessions |-> <<>>]
    /\ language = [s \in Sessions |-> LANGUAGES[1]]
    /\ pc = [s \in Sessions |-> "idle"]
    /\ ref_path = [s \in Sessions |-> NoPath]
    /\ short_ref_path = [s \in Sessions |-> NoPath]
    /\ files = <<>>
    /\ act = [s \in Sessions |-> NoAct]
    /\ pre = [s \in Sessions |-> NoPre]
    /\ nValid = [s \in Sessions |-> 0]

Step(s) ==
    \/ Validate(s)
    \/ PersistUpload(s)
    \/ Preprocess(s)
    \/ SynthBegin(s)
    \/ EngineReturn(s)
    \/ ShowResult(s)
    \/ EndFailed(s)

Next ==
    \E s \in Sessions :
        \/ Rerun(s)
        \/ \E a \in Uploads : Upload(s, a)
        \/ \E t \in Texts : TextChange(s, t)
        \/ \E l \in LanguageChoices : LanguageChange(s, l)
        \/ GenerateClick(s)
        \/ Step(s)

Spec == Init /\ [][Next]_vars

\* ------------------------------------------- preprocess_audio on its own

\* Sample counts around the two caps, and beyond.
PreLens ==
    {0, 1, DefaultCap * sr - 1, DefaultCap * sr, CallCap * sr - 1, CallCap * sr,
     CallCap * sr + 1, 20 * sr}

PreSources == {Bytes(1, TRUE, n) : n \in PreLens} \cup {Bytes(2, FALSE, 0)}

\* Positive caps in seconds.
Caps == {1, DefaultCap, CallCap, 30}

\* A caller is about to call preprocess_audio(src, out, max_duration=c) on an
\* existing source file and a fresh output path.
InitPre ==
    \E s \in Sessions, d \in PreSources, c \in Caps :
        LET src == <<s, 0, "ref">>
            out == <<s, 0, "clip">>
        IN  /\ files = (src :> [exists |-> TRUE, data |-> d])
                        @@ (out :> [exists |-> TRUE, data |-> EmptyData])
            /\ pre = [t \in Sessions |->
                        IF t = s
                        THEN [ret |-> "pending", audio_path |-> src,
                              output_path |-> out, max_duration |-> c, src |-> d]
                        ELSE NoPre]
            /\ cache = <<>>
            /\ nCtor = 0
            /\ ctorBy = [t \in Sessions |-> 0]
            /\ session_state = [t \in Sessions |-> <<>>]
            /\ text = [t \in Sessions |-> <<>>]
            /\ reference_audio = [t \in Sessions |-> <<>>]
            /\ language = [t \in Sessions |-> LANGUAGES[1]]
            /\ pc = [t \in Sessions |-> "idle"]
            /\ ref_path = [t \in Sessions |-> NoPath]
            /\ short_ref_path = [t \in Sessions |-> NoPath]
            /\ act = [t \in Sessions |-> NoAct]
            /\ nValid = [t \in Sessions |-> 0]

PreCall(s) ==
    /\ pre[s].ret = "pending"
    /\ \E decode_ok, write_ok, copy_ok \in BOOLEAN :
          LET r == preprocess_audio(files, pre[s].audio_path, pre[s].output_path,
                                    pre[s].max_duration, decode_ok, write_ok, copy_ok)
          IN  /\ files' = r.fs
              /\ pre' = [pre EXCEPT ![s].ret = r.ret]
    /\ UNCHANGED <<model_vars, widget_vars, local_vars, pc, act, nValid>>

NextPre == \E s \in Sessions : PreCall(s)

SpecPre == InitPre /\ [][NextPre]_vars

\* A started script run keeps running: the runtime schedules every session's
\* script thread, and each external call returns or raises.
FairSpec == Spec /\ \A s \in Sessions : WF_vars(Step(s))

\* ------------------------------------------------------------- properties

IsBlank(t) == \A i \in 1..Len(t) : t[i] \in Whitespace

IsPrefix(a, b) == Len(a) <= Len(b) /\ a = SubSeq(b, 1, Len(a))

FilesOf(s) == {p \in DOMAIN files : p[1] = s}

Existing == {p \in DOMAIN files : files[p].exists}

\* A generate action that passed validation has ended and the page still
\* shows what it did.
Finished(s) ==
    pc[s] = "idle" /\ act[s].started /\ ~act[s].blocked /\ ~act[s].warned

Success(s) ==
    /\ act[s].out # NoPath
    /\ act[s].out \in Existing
    /\ act[s].exposed = act[s].out

Failure(s) == act[s].msg # <<>> /\ act[s].out = NoPath

FullTrace == <<"persist", "preprocess", "engine">>

Phase(p) ==
    CASE p = "idle" -> "Idle"
      [] p = "validating" -> "Validating"
      [] p \in {"persist", "preprocess", "synth", "engine"} -> "Processing"
      [] p = "succeeded" -> "Succeeded"
      [] p = "failed" -> "Failed"

Lifecycle ==
    {<<"Idle", "Validating">>, <<"Validating", "Idle">>,
     <<"Validating", "Processing">>, <<"Processing", "Succeeded">>,
     <<"Processing", "Failed">>, <<"Succeeded", "Idle">>, <<"Failed", "Idle">>}

\* C1: a generate action whose text is blank (empty or whitespace only) or
\* whose reference is missing ends in a validation warning, with no call of
\* preprocess_audio, no engine call and no temporary file written.
C1_InvalidDoesNothing ==
    [][\A s \in Sessions :
         ( /\ pc[s] = "validating"
           /\ pc'[s] # "validating"
           /\ (IsBlank(text[s]) \/ reference_audio[s] = <<>>) )
         => /\ pc'[s] = "idle"
            /\ act'[s].warned
            /\ act'[s].trace = <<>>
            /\ act'[s].call = <<>>
            /\ act'[s].created = 0
            /\ pre'[s] = NoPre
            /\ {p \in DOMAIN files' : p[1] = s} = FilesOf(s)
            /\ nValid'[s] = nValid[s]]_vars

\* A whitespace-only text with a reference uploaded was refused.
C1_Witness ==
    \E s \in Sessions :
        /\ pc[s] = "idle"
        /\ act[s].warned
        /\ text[s] # <<>>
        /\ IsBlank(text[s])
        /\ reference_audio[s] # <<>>

\* C2: within a session the engine constructor runs at most once, and the
\* handle the session stored at its first access is never replaced.
C2_OneHandle ==
    /\ [](\A s \in Sessions : ctorBy[s] <= 1)
    /\ [][\A s \in Sessions :
            session_state[s] # <<>> => session_state'[s] = session_state[s]]_vars

\* A session that constructed the engine is in its second valid generate
\* action and calls the engine it stored.
C2_Witness ==
    \E s \in Sessions :
        /\ ctorBy[s] = 1
        /\ nValid[s] = 2
        /\ pc[s] = "engine"
        /\ act[s].call[1].tts = session_state[s][1]

\* C3: once a session has stored None for its model, it keeps None, no later
\* run constructs an engine, and every generate action of the session is
\* blocked before preprocess_audio, the engine or any temp file.
C3_FailClosed ==
    /\ [](\A s \in Sessions :
            session_state[s] = <<None>>
            => /\ pc[s] = "idle"
               /\ act[s].started => act[s].blocked
               /\ act[s].trace = <<>>
               /\ act[s].call = <<>>
               /\ pre[s] = NoPre
               /\ FilesOf(s) = {})
    /\ [][\A s \in Sessions :
            session_state[s] = <<None>>
            => session_state'[s] = <<None>> /\ nCtor' = nCtor]_vars

\* The session whose construction failed had a generate action blocked.
C3_Witness ==
    \E s \in Sessions :
        session_state[s] = <<None>> /\ ctorBy[s] = 1 /\ act[s].blocked

\* C4 (as claimed): a valid generate action ends either with an existing
\* output file returned and exposed, or with a non-empty error message and
\* no output path; never both, never neither.
C4_Original ==
    \A s \in Sessions :
        Finished(s) => (Success(s) /\ ~Failure(s)) \/ (Failure(s) /\ ~Success(s))

C7_Original == \A s \in Sessions : ~act[s].unhandled

C9_Original ==
    \A s \in Sessions :
        Finished(s)
        => /\ act[s].trace = FullTrace
           /\ pre[s].max_duration = 15
           /\ act[s].call # <<>>

\* C9: the steps of a valid generate action are a prefix of persist,
\* preprocess (cap 15 s, on the persisted upload), engine; the engine is
\* called only after preprocess_audio returned, True or False, with the
\* entered text, the clip's path (not the upload's) and the selected
\* language; and it is called whenever the output file was created.
C9_OrderedSteps ==
    \A s \in Sessions :
        /\ IsPrefix(act[s].trace, FullTrace)
        /\ pre[s].ret # "none"
           => /\ pre[s].max_duration = 15
              /\ pre[s].audio_path = <<s, nValid[s], "ref">>
              /\ pre[s].output_path = <<s, nValid[s], "clip">>
              /\ Len(act[s].trace) >= 2
        /\ act[s].call # <<>>
           => /\ act[s].trace = FullTrace
              /\ pre[s].ret \in {"True", "False"}
              /\ act[s].call[1].text = text[s]
              /\ act[s].call[1].language = language[s]
              /\ act[s].call[1].speaker_wav = pre[s].output_path
              /\ act[s].call[1].speaker_wav # pre[s].audio_path
        /\ (act[s].trace # <<>> /\ <<s, nValid[s], "out">> \in DOMAIN files)
           => act[s].call # <<>>

\* The engine was called after preprocess_audio fell back to the copy, with
\* a language other than the default.
C9_Witness ==
    \E s \in Sessions :
        /\ act[s].call # <<>>
        /\ pre[s].ret = "False"
        /\ act[s].call[1].language # LANGUAGES[1]

\* C10 (as claimed): after n valid generate actions of a session exactly 3n
\* temporary files of that session exist.
C10_Original ==
    \A s \in Sessions : pc[s] = "idle" => Cardinality(FilesOf(s)) = 3 * nValid[s]

\* C10: no temporary file is ever deleted; an action creates its upload,
\* clip and output file in this order, so a session has at most 3n files
\* after n valid actions, exactly 3n when each of them got as far as
\* creating its output file, which stays whether the engine returns or raises.
C10_NeverDeleted ==
    /\ [](\A s \in Sessions :
            /\ Cardinality(FilesOf(s)) <= 3 * nValid[s]
            /\ FilesOf(s) \subseteq Existing
            /\ \A n \in 1..nValid[s] :
                 /\ <<s, n, "out">> \in DOMAIN files => <<s, n, "clip">> \in DOMAIN files
                 /\ <<s, n, "clip">> \in DOMAIN files => <<s, n, "ref">> \in DOMAIN files
            /\ (\A n \in 1..nValid[s] : <<s, n, "out">> \in DOMAIN files)
               => Cardinality(FilesOf(s)) = 3 * nValid[s])
    /\ [][ /\ Existing \subseteq {p \in DOMAIN files' : files'[p].exists}
           /\ \A s \in Sessions :
                pc[s] = "engine" /\ pc'[s] # "engine"
                => act[s].call[1].file_path \in {p \in DOMAIN files' : files'[p].exists}
         ]_vars

\* A session has run two valid actions, one of which failed in the engine,
\* and all six files are there.
C10_Witness ==
    \E s \in Sessions :
        /\ nValid[s] = 2
        /\ pc[s] = "idle"
        /\ act[s].msg # <<>>
        /\ Cardinality(FilesOf(s) \cap Existing) = 6

====
